---- MODULE Spec2Model ----
(***************************************************************************)
(* MemManagerImpl (db/insert/MemManagerImpl.cpp): the mutable directory    *)
(* mem_id_map_, the immutable queue immu_mem_list_, the two mutexes        *)
(* mutex_ and serialization_mtx_, and every public call of the manager run *)
(* by concurrent threads.  One step of a thread is one statement of the    *)
(* source that reads or writes shared state; a data race is therefore an   *)
(* interleaving of such statements.  MemTable and VectorSource are not     *)
(* part of the translated file; their behaviour is modelled from their     *)
(* contract (Add, Delete, Serialize, Empty, GetCurrentMem, GetVectorIds).  *)
(***************************************************************************)
EXTENDS Integers, Sequences, FiniteSets, TLC

\* ---------------------------------------------------------------- bounds
NumThreads == 2
NumTables == 2
MaxId == 1
\* number of calls the callers make: with every operation and with failing
\* MemTable operations (Spec), with the operations of LongNext only (LongSpec)
MaxCalls == 3
MaxLongCalls == 4
MaxDeleteLen == 1
\* DeleteSpec: the calls made and the length of a DeleteVectors batch
MaxDeleteCalls == 2
MaxBatchLen == 3

\* options_.insert_buffer_size_ : the memory ceiling of the insert gate
insert_buffer_size_ == 1

Threads == 1..NumThreads
Tables == 1..NumTables
Ids == 1..MaxId
\* a MemTable object is identified by its allocation number
Mems == 1..MaxLongCalls
\* ids a VectorSource generates for a batch that came without ids
GeneratedIds == (MaxId + 1)..(MaxId + MaxLongCalls)
AllIds == Ids \cup GeneratedIds

NoThread == 0
NoMem == 0

VARIABLES
    mem_id_map_,         \* [Tables -> Mems \cup {NoMem}]   the mutable directory
    immu_mem_list_,      \* Seq([mem, dangling])             the immutable queue
    mutex_,              \* owner of the mutable lock, or NoThread
    serialization_mtx_,  \* owner of the immutable lock, or NoThread
    heap,                \* [Mems -> MemTable], the objects allocated so far
    allocated,           \* number of MemTable objects constructed
    th,                  \* [Threads -> frame of the call the thread runs]
    calls,               \* number of calls started
    serLog,              \* history: the Serialize invocations, in order
    hist,                \* history: ids inserted / deleted by successful calls,
                         \* buffers ever pushed onto the queue
    overlap,             \* history: [Threads -> BOOLEAN], see MarkOverlap
    env                  \* the callers and MemTable, fixed by Init: [budget, faults,
                         \* idless, ids, batch, live]

vars == <<mem_id_map_, immu_mem_list_, mutex_, serialization_mtx_, heap,
          allocated, th, calls, serLog, hist, overlap, env>>

\* ------------------------------------------------------- MemTable contract
NewMemTable(t) == [table_id |-> t, adds |-> {}, dels |-> {}]

NullMemTable == [table_id |-> 0, adds |-> {}, dels |-> {}]

\* MemTable::Empty
Empty(m) == heap[m].adds = {} /\ heap[m].dels = {}

\* MemTable::GetCurrentMem
MemTableCurrentMem(m) == Cardinality(heap[m].adds) + Cardinality(heap[m].dels)

\* MemTable::GetTableId
GetTableId(m) == heap[m].table_id

\* VectorSource::GetVectorIds: the ids of the batch, generated when none came
GetVectorIds(v, callNo) ==
    IF v.id_array_ = <<>> THEN [k \in 1..v.vector_count_ |-> MaxId + callNo]
                          ELSE v.id_array_

SeqToSet(s) == {s[k] : k \in 1..Len(s)}

\* --------------------------------------------------------------- helpers
RECURSIVE SumSet(_)
SumSet(S) ==
    IF S = {} THEN 0
    ELSE LET m == CHOOSE x \in S : TRUE IN MemTableCurrentMem(m) + SumSet(S \ {m})

\* What a queue entry reads as.  An entry pushed by ToImmutable(table_id) was
\* copied out of an erased map node: it either still reads as the MemTable it
\* was (dangling = FALSE) or as an object without content (dangling = TRUE).
EntryTableId(e) == IF e.dangling THEN 0 ELSE GetTableId(e.mem)
EntryAdds(e) == IF e.dangling THEN {} ELSE heap[e.mem].adds
EntryDels(e) == IF e.dangling THEN {} ELSE heap[e.mem].dels
EntryCurrentMem(e) == IF e.dangling THEN 0 ELSE MemTableCurrentMem(e.mem)

RECURSIVE SumList(_)
SumList(l) ==
    IF l = <<>> THEN 0 ELSE EntryCurrentMem(Head(l)) + SumList(Tail(l))

MapMems == {mem_id_map_[t] : t \in Tables} \ {NoMem}
ListMems == {immu_mem_list_[k].mem : k \in 1..Len(immu_mem_list_)}

Frame0 ==
    [pc |-> "idle", op |-> "none", table_id |-> 0,
     vectors |-> [vector_count_ |-> 0, id_array_ |-> <<>>],
     vector_ids |-> <<>>, wal_lsn |-> 0, callNo |-> 0,
     mem |-> NoMem, i |-> 0, total_mem |-> 0, status |-> "OK",
     temp_map |-> [t \in Tables |-> NoMem], visited |-> {},
     temp_list |-> <<>>, table_ids |-> {},
     promoted |-> {}, entry_map |-> {}, entry_list |-> {}, attempts |-> <<>>,
     counted |-> {}]

\* history is kept of a bounded number of calls only: of callers that never
\* stop (env.live) the history fields stay as they are
Noted(new, old) == IF env.live THEN old ELSE new

MutatingOps == {"InsertVectors", "DeleteVector", "DeleteVectors", "Flush", "FlushAll"}

Running(s) == th[s].pc # "idle"

\* history only: a running EraseMemVector is marked once a call of MutatingOps
\* runs at the same time as it
MarkOverlap(self, op) ==
    [s \in Threads |->
        IF s = self
        THEN op = "EraseMemVector" /\ \E u \in Threads \ {self} :
                                          Running(u) /\ th[u].op \in MutatingOps
        ELSE IF Running(s) /\ th[s].op = "EraseMemVector" /\ op \in MutatingOps
             THEN TRUE ELSE overlap[s]]

\* a thread enters a call: its frame is set up, nothing shared is touched.
\* Callers are interchangeable, so a new call is run by the first idle thread;
\* tables are interchangeable, so a table is first named after those before it.
Begin(self, op, pc0, args) ==
    /\ th[self].pc = "idle"
    /\ \A u \in Threads : u < self => Running(u)
    /\ args.table_id <= hist.named + 1
    /\ env.live \/ calls < env.budget
    /\ calls' = IF env.live THEN calls ELSE calls + 1
    /\ th' = [th EXCEPT ![self] =
                 [args EXCEPT !.pc = pc0, !.op = op, !.callNo = calls + 1,
                              !.entry_map = Noted(MapMems, {}),
                              !.entry_list = Noted(ListMems, {})]]
    /\ overlap' = MarkOverlap(self, op)
    /\ hist' = [hist EXCEPT !.clean = @ /\ op \in MutatingOps,
                            !.named = IF args.table_id > @ THEN args.table_id ELSE @]
    /\ UNCHANGED <<mem_id_map_, immu_mem_list_, mutex_, serialization_mtx_,
                   heap, allocated, serLog, env>>

\* the statuses MemTable::Add, MemTable::Delete and MemTable::Serialize may
\* return: ok or not
MemTableOutcomes == IF env.faults THEN BOOLEAN ELSE {TRUE}

Constructed ==
    /\ mem_id_map_ = [t \in Tables |-> NoMem]
    /\ immu_mem_list_ = <<>>
    /\ mutex_ = NoThread
    /\ serialization_mtx_ = NoThread
    /\ heap = [m \in Mems |-> NullMemTable]
    /\ allocated = 0
    /\ th = [s \in Threads |-> Frame0]
    /\ calls = 0
    /\ serLog = <<>>
    /\ hist = [ins |-> [t \in Tables |-> {}], del |-> [t \in Tables |-> {}],
               clean |-> TRUE, named |-> 0, queued |-> {}]
    /\ overlap = [s \in Threads |-> FALSE]

Init ==
    /\ Constructed
    /\ env = [budget |-> MaxCalls, faults |-> TRUE, idless |-> TRUE, ids |-> Ids,
              batch |-> MaxDeleteLen, live |-> FALSE]

LongInit ==
    /\ Constructed
    /\ env = [budget |-> MaxLongCalls, faults |-> FALSE, idless |-> FALSE, ids |-> Ids,
              batch |-> MaxDeleteLen, live |-> FALSE]

\* callers of InsertVectors whose batches come without ids, and a flusher
GateInit ==
    /\ Constructed
    /\ env = [budget |-> MaxLongCalls, faults |-> FALSE, idless |-> TRUE, ids |-> {},
              batch |-> 0, live |-> FALSE]

\* callers that never stop calling InsertVectors and Flush(table_ids): calls
\* are not counted, the Serialize invocations are not recorded
LiveInit ==
    /\ Constructed
    /\ env = [budget |-> 0, faults |-> FALSE, idless |-> FALSE, ids |-> Ids,
              batch |-> 0, live |-> TRUE]

\* two callers of DeleteVectors with batches of up to MaxBatchLen distinct ids
DeleteInit ==
    /\ Constructed
    /\ env = [budget |-> MaxDeleteCalls, faults |-> TRUE, idless |-> FALSE,
              ids |-> 1..MaxBatchLen, batch |-> MaxBatchLen, live |-> FALSE]

\* ------------------------------------------------------------ lock scopes
\* a lock that is handed to whoever asks for it
CanLockAlways(m) == TRUE

\* std::unique_lock<std::mutex> lock(m): blocks until m is free
CanLock(m) == m = NoThread

\* a lock that is never given back
UnlockNever(self) == self

\* ~unique_lock at the end of the scope
Unlock(self) == NoThread

\* the call returns: its locals go out of scope, the frame keeps what the caller
\* sees (status, out-parameters) and the history fields; of the callers that
\* never stop (env.live) only the status is kept
Return(self, f) ==
    [th EXCEPT ![self] =
        IF env.live
        THEN [Frame0 EXCEPT !.op = f.op, !.status = f.status]
        ELSE [f EXCEPT !.pc = "idle", !.mem = NoMem, !.i = 0, !.callNo = 0,
                       !.temp_map = Frame0.temp_map, !.visited = {}, !.temp_list = <<>>]]

Quiet == UNCHANGED <<calls, overlap, env>>

\* --------------------------------------------------- GetCurrent*Mem (169-193)
\* a gate that also stalls a caller whose sample equals the ceiling
InsertGateAtLeast(total_mem) ==
    IF total_mem >= insert_buffer_size_ THEN "GetCurrentMutableMem" ELSE "ins_lock"

\* a gate that admits every caller
InsertGateOpen(total_mem) == "ins_lock"

\* line 42: stall while the sampled total exceeds the ceiling
InsertGate(total_mem) ==
    IF total_mem > insert_buffer_size_ THEN "GetCurrentMutableMem" ELSE "ins_lock"

\* the queue entries that read as the MemTable they were pushed as
ReadableMems ==
    {immu_mem_list_[k].mem : k \in {j \in 1..Len(immu_mem_list_) :
                                       ~immu_mem_list_[j].dangling}}

\* history: the buffers whose GetCurrentMem() went into the total of a
\* GetCurrentMem call, after a loop over the buffers S has been added
CountedIn(f, S) == IF f.op = "GetCurrentMem" THEN f.counted \cup S ELSE f.counted

\* lock mutex_, sum the directory, unlock
GetCurrentMutableMem(self) ==
    /\ th[self].pc = "GetCurrentMutableMem"
    /\ CanLock(mutex_)
    /\ th' = [th EXCEPT ![self] = [@ EXCEPT !.total_mem = SumSet(MapMems),
                                          !.counted = CountedIn(th[self], MapMems),
                                          !.pc = "GetCurrentImmutableMem"]]
    /\ Quiet
    /\ UNCHANGED <<mem_id_map_, immu_mem_list_, mutex_, serialization_mtx_,
                   heap, allocated, serLog, hist>>

\* lock serialization_mtx_, sum the queue, unlock; GetCurrentMem adds the two
\* sums, and InsertVectors compares the total with the ceiling (line 42)
GetCurrentImmutableMem(self) ==
    /\ th[self].pc = "GetCurrentImmutableMem"
    /\ CanLock(serialization_mtx_)
    /\ LET immu == SumList(immu_mem_list_)
           f == th[self] IN
         th' = IF f.op = "GetCurrentMem"
               THEN Return(self, [f EXCEPT !.total_mem = @ + immu,
                                           !.counted = CountedIn(f, ReadableMems)])
               ELSE [th EXCEPT ![self] =
                        [f EXCEPT !.total_mem = @ + immu,
                                  !.pc = InsertGate(f.total_mem + immu)]]
    /\ Quiet
    /\ UNCHANGED <<mem_id_map_, immu_mem_list_, mutex_, serialization_mtx_,
                   heap, allocated, serLog, hist>>

CallGetCurrentMem(self) ==
    Begin(self, "GetCurrentMem", "GetCurrentMutableMem", Frame0)

\* ------------------------------------------------------ GetMemByTable (29-38)
AfterGetMem(f) ==
    CASE f.op = "InsertVectors" -> "ins_add"
      [] f.op = "DeleteVector" -> "del_apply"
      [] OTHER -> "dels_loop"

\* lines 31-34: find, return the buffer when the table has one
MapFind(f) ==
    LET m == mem_id_map_[f.table_id] IN
      IF m # NoMem THEN [f EXCEPT !.mem = m, !.pc = AfterGetMem(f)]
                   ELSE [f EXCEPT !.pc = "getmem_make"]

\* GetMemByTable as DeleteVector and DeleteVectors call it (lines 68, 76)
GetMemByTableFind(self) ==
    /\ th[self].pc = "getmem_find"
    /\ th' = [th EXCEPT ![self] = MapFind(th[self])]
    /\ Quiet
    /\ UNCHANGED <<mem_id_map_, immu_mem_list_, mutex_, serialization_mtx_,
                   heap, allocated, serLog, hist>>

\* the MemTable objects no shared_ptr refers to
FreeMems ==
    {m \in Mems :
        /\ m \notin MapMems \cup ListMems
        /\ \A s \in Threads :
              /\ th[s].mem # m
              /\ \A t \in Tables : th[s].temp_map[t] # m
              /\ \A k \in 1..Len(th[s].temp_list) : th[s].temp_list[k].mem # m}

\* std::make_shared<MemTable> (line 36): the next object, or, when the callers
\* never stop (env.live), the storage of an object that was destroyed
FreshMem ==
    IF env.live
    THEN IF FreeMems = {} THEN NoMem
         ELSE CHOOSE m \in FreeMems : \A n \in FreeMems : m <= n
    ELSE IF allocated < MaxLongCalls THEN allocated + 1 ELSE NoMem

\* a GetMemByTable that returns a fresh MemTable without installing it
GetMemByTableMakeDetached(self) ==
    /\ th[self].pc = "getmem_make"
    /\ FreshMem # NoMem
    /\ LET f == th[self]
           m == FreshMem IN
         /\ allocated' = IF env.live THEN allocated ELSE m
         /\ heap' = [heap EXCEPT ![m] = NewMemTable(f.table_id)]
         /\ th' = [th EXCEPT ![self] = [f EXCEPT !.mem = m, !.pc = AfterGetMem(f)]]
    /\ Quiet
    /\ UNCHANGED <<mem_id_map_, immu_mem_list_, mutex_, serialization_mtx_, serLog, hist>>

\* lines 36-37: install a fresh MemTable under table_id and return it
GetMemByTableMake(self) ==
    /\ th[self].pc = "getmem_make"
    /\ FreshMem # NoMem
    /\ LET f == th[self]
           m == FreshMem IN
         /\ allocated' = IF env.live THEN allocated ELSE m
         /\ heap' = [heap EXCEPT ![m] = NewMemTable(f.table_id)]
         /\ mem_id_map_' = [mem_id_map_ EXCEPT ![f.table_id] = m]
         /\ th' = [th EXCEPT ![self] = [f EXCEPT !.mem = m, !.pc = AfterGetMem(f)]]
    /\ Quiet
    /\ UNCHANGED <<immu_mem_list_, mutex_, serialization_mtx_, serLog, hist>>

\* ------------------------------------------------------ InsertVectors (40-64)
\* the batches callers send: one vector, with its id or (env.idless) without
VectorsDataInputs ==
    {[vector_count_ |-> 1, id_array_ |-> ids] :
        ids \in (IF env.idless THEN {<<>>} ELSE {}) \cup {<<i>> : i \in env.ids}}

CallInsertVectors(self) ==
    \E t \in Tables, v \in VectorsDataInputs :
        Begin(self, "InsertVectors", "GetCurrentMutableMem",
              [Frame0 EXCEPT !.table_id = t, !.vectors = v])

\* line 47, and the find of GetMemByTable (line 54, lines 31-34)
InsertVectorsLock(self) ==
    /\ th[self].pc = "ins_lock"
    /\ CanLock(mutex_)
    /\ mutex_' = self
    /\ th' = [th EXCEPT ![self] = MapFind(th[self])]
    /\ Quiet
    /\ UNCHANGED <<mem_id_map_, immu_mem_list_, serialization_mtx_, heap,
                   allocated, serLog, hist>>

\* the source's ids written back whatever Add returned
IdWriteBackAlways(v, ok, source_ids) == source_ids

\* the ids InsertVectorsNoLock leaves in vectors.id_array_ (lines 58-62)
IdWriteBack(v, ok, source_ids) ==
    IF ok /\ v.id_array_ = <<>> THEN source_ids ELSE v.id_array_

\* lines 55-63, then the return of line 49 releases mutex_
InsertVectorsNoLock(self) ==
    /\ th[self].pc = "ins_add"
    /\ \E ok \in MemTableOutcomes :
         LET f == th[self]
             source_ids == GetVectorIds(f.vectors, f.callNo) IN
           /\ heap' = IF ok THEN [heap EXCEPT ![f.mem].adds = @ \cup SeqToSet(source_ids)]
                            ELSE heap
           /\ th' = Return(self,
                      [f EXCEPT !.status = IF ok THEN "OK" ELSE "ADD_ERROR",
                                !.vectors.id_array_ = IdWriteBack(f.vectors, ok, source_ids)])
           /\ hist' = IF ok THEN [hist EXCEPT !.ins[f.table_id] = @ \cup SeqToSet(source_ids)]
                            ELSE [hist EXCEPT !.clean = FALSE]
    /\ mutex_' = Unlock(self)
    /\ Quiet
    /\ UNCHANGED <<mem_id_map_, immu_mem_list_, serialization_mtx_, allocated, serLog>>

\* ------------------------------------------- DeleteVector / DeleteVectors (66-87)
CallDeleteVector(self) ==
    \E t \in Tables, id \in env.ids :
        Begin(self, "DeleteVector", "getmem_find",
              [Frame0 EXCEPT !.table_id = t, !.vector_ids = <<id>>])

\* lines 70-71
DeleteVector(self) ==
    /\ th[self].pc = "del_apply"
    /\ \E ok \in MemTableOutcomes :
         LET f == th[self] IN
           /\ heap' = IF ok THEN [heap EXCEPT ![f.mem].dels = @ \cup {f.vector_ids[1]}]
                            ELSE heap
           /\ th' = Return(self, [f EXCEPT !.status = IF ok THEN "OK" ELSE "DELETE_ERROR"])
           /\ hist' = IF ok THEN [hist EXCEPT !.del[f.table_id] = @ \cup {f.vector_ids[1]}]
                            ELSE [hist EXCEPT !.clean = FALSE]
    /\ Quiet
    /\ UNCHANGED <<mem_id_map_, immu_mem_list_, mutex_, serialization_mtx_,
                   allocated, serLog>>

RECURSIVE SeqsUpTo(_, _)
SeqsUpTo(S, n) ==
    IF n = 0 THEN {<<>>}
    ELSE LET shorter == SeqsUpTo(S, n - 1) IN
         shorter \cup {Append(q, x) : q \in shorter, x \in S}

\* the batches callers send to DeleteVectors: no id twice in a batch
IDNumbersInputs ==
    {q \in SeqsUpTo(env.ids, env.batch) :
        \A j, k \in 1..Len(q) : q[j] = q[k] => j = k}

CallDeleteVectors(self) ==
    \E t \in Tables, ids \in IDNumbersInputs :
        Begin(self, "DeleteVectors", "getmem_find",
              [Frame0 EXCEPT !.table_id = t, !.vector_ids = ids, !.i = 1])

\* the loop of DeleteVectors with a failed Delete passed over
DeleteVectorsSkipFailed(self) ==
    /\ th[self].pc = "dels_loop"
    /\ LET f == th[self] IN
         IF f.i > Len(f.vector_ids)
         THEN /\ th' = Return(self, [f EXCEPT !.status = "OK"])
              /\ UNCHANGED <<heap, hist>>
         ELSE \E ok \in MemTableOutcomes :
                LET id == f.vector_ids[f.i] IN
                  /\ heap' = IF ok THEN [heap EXCEPT ![f.mem].dels = @ \cup {id}] ELSE heap
                  /\ th' = [th EXCEPT ![self] =
                               [f EXCEPT !.i = @ + 1,
                                         !.attempts = Append(@, [id |-> id, ok |-> ok])]]
                  /\ hist' = IF ok THEN [hist EXCEPT !.del[f.table_id] = @ \cup {id}]
                                   ELSE [hist EXCEPT !.clean = FALSE]
    /\ Quiet
    /\ UNCHANGED <<mem_id_map_, immu_mem_list_, mutex_, serialization_mtx_,
                   allocated, serLog>>

\* lines 79-86: one pass of the loop, or the return after it.  attempts is
\* history: the Delete invocations of the call and whether each returned ok
DeleteVectors(self) ==
    /\ th[self].pc = "dels_loop"
    /\ LET f == th[self] IN
         IF f.i > Len(f.vector_ids)
         THEN /\ th' = Return(self, [f EXCEPT !.status = "OK"])
              /\ UNCHANGED <<heap, hist>>
         ELSE \E ok \in MemTableOutcomes :
                LET id == f.vector_ids[f.i]
                    g == [f EXCEPT !.attempts = Append(@, [id |-> id, ok |-> ok])] IN
                  /\ heap' = IF ok THEN [heap EXCEPT ![f.mem].dels = @ \cup {id}] ELSE heap
                  /\ th' = IF ok
                           THEN [th EXCEPT ![self] = [g EXCEPT !.i = @ + 1]]
                           ELSE Return(self, [g EXCEPT !.status = "DELETE_ERROR"])
                  /\ hist' = IF ok THEN [hist EXCEPT !.del[f.table_id] = @ \cup {id}]
                                   ELSE [hist EXCEPT !.clean = FALSE]
    /\ Quiet
    /\ UNCHANGED <<mem_id_map_, immu_mem_list_, mutex_, serialization_mtx_,
                   allocated, serLog>>

\* ------------------------------------------ ToImmutable(table_id) (116-129)
CallFlush(self) ==
    \E t \in Tables, lsn \in {calls + 1} :
        Begin(self, "Flush", "toimm_lock",
              [Frame0 EXCEPT !.table_id = t, !.wal_lsn = lsn])

\* the status of ToImmutable handed on as it is
FlushErrorPassThrough(status) == status

\* Flush, lines 92-93: what Flush returns when ToImmutable did not return OK
FlushError(status) == "DB_ERROR"

\* an erase that empties the directory
MapEraseAll(map, t) == [x \in Tables |-> NoMem]

\* an erase that removes nothing
MapEraseNothing(map, t) == map

\* line 125, line 152
MapErase(map, t) == [map EXCEPT ![t] = NoMem]

\* lines 118-125: lock mutex_; not found (and Flush returns at line 93,
\* releasing mutex_), or erase the node
ToImmutableFind(self) ==
    /\ th[self].pc = "toimm_lock"
    /\ CanLock(mutex_)
    /\ LET f == th[self]
           m == mem_id_map_[f.table_id] IN
         IF m = NoMem
         THEN /\ th' = Return(self, [f EXCEPT !.status = FlushError("DB_NOT_FOUND")])
              /\ mutex_' = Unlock(self)
              /\ hist' = [hist EXCEPT !.clean = FALSE]
              /\ UNCHANGED mem_id_map_
         ELSE /\ mem_id_map_' = MapErase(mem_id_map_, f.table_id)
              /\ th' = [th EXCEPT ![self] = [f EXCEPT !.mem = m, !.pc = "toimm_push"]]
              /\ mutex_' = self
              /\ UNCHANGED hist
    /\ Quiet
    /\ UNCHANGED <<immu_mem_list_, serialization_mtx_, heap, allocated, serLog>>

\* the promotion of Flush(table_id) with mutex_ kept until Flush returns
ToImmutablePushNoUnlock(self) ==
    /\ th[self].pc = "toimm_push"
    /\ \E dangling \in BOOLEAN :
         immu_mem_list_' = Append(immu_mem_list_,
                                  [mem |-> th[self].mem, dangling |-> dangling])
    /\ th' = [th EXCEPT ![self] = [@ EXCEPT !.promoted = @ \cup {th[self].mem},
                                          !.pc = "flush_lock"]]
    /\ hist' = [hist EXCEPT !.queued = @ \cup {th[self].mem}]
    /\ Quiet
    /\ UNCHANGED <<mem_id_map_, mutex_, serialization_mtx_, heap, allocated, serLog>>

\* lines 126-128: push memIt->second, read from the node line 125 erased, then
\* return and release mutex_
ToImmutablePush(self) ==
    /\ th[self].pc = "toimm_push"
    /\ \E dangling \in BOOLEAN :
         immu_mem_list_' = Append(immu_mem_list_,
                                  [mem |-> th[self].mem, dangling |-> dangling])
    /\ mutex_' = Unlock(self)
    /\ th' = [th EXCEPT ![self] = [@ EXCEPT !.promoted = @ \cup {th[self].mem},
                                          !.pc = "flush_lock"]]
    /\ hist' = [hist EXCEPT !.queued = @ \cup {th[self].mem}]
    /\ Quiet
    /\ UNCHANGED <<mem_id_map_, serialization_mtx_, heap, allocated, serLog>>

\* ---------------------------------------------------- ToImmutable() (131-146)
CallFlushAll(self) ==
    \E lsn \in {calls + 1} :
        Begin(self, "FlushAll", "toimmall_lock", [Frame0 EXCEPT !.wal_lsn = lsn])

\* lines 133-142: lock mutex_ when entering; one pass of the loop over the
\* directory (in any order), or its end
ToImmutableAllLoop(self) ==
    /\ \/ th[self].pc = "toimmall_lock" /\ CanLock(mutex_)
       \/ th[self].pc = "toimmall_loop" /\ mutex_ = self
    /\ mutex_' = self
    /\ LET f == [th[self] EXCEPT !.pc = "toimmall_loop"]
           todo == {t \in Tables \ f.visited : mem_id_map_[t] # NoMem} IN
         IF todo = {}
         THEN /\ th' = [th EXCEPT ![self] = [f EXCEPT !.pc = "toimmall_swap"]]
              /\ UNCHANGED <<immu_mem_list_, hist>>
         ELSE \E t \in todo :
                LET m == mem_id_map_[t] IN
                  IF Empty(m)
                  THEN /\ th' = [th EXCEPT ![self] =
                                    [f EXCEPT !.temp_map[t] = m, !.visited = @ \cup {t}]]
                       /\ UNCHANGED <<immu_mem_list_, hist>>
                  ELSE /\ immu_mem_list_' =
                              Append(immu_mem_list_, [mem |-> m, dangling |-> FALSE])
                       /\ th' = [th EXCEPT ![self] =
                                    [f EXCEPT !.promoted = Noted(@ \cup {m}, {}),
                                              !.visited = @ \cup {t}]]
                       /\ hist' = Noted([hist EXCEPT !.queued = @ \cup {m}], hist)
    /\ Quiet
    /\ UNCHANGED <<mem_id_map_, serialization_mtx_, heap, allocated, serLog>>

\* lines 144-145
ToImmutableAllSwap(self) ==
    /\ th[self].pc = "toimmall_swap"
    /\ mem_id_map_' = th[self].temp_map
    /\ mutex_' = Unlock(self)
    /\ th' = [th EXCEPT ![self].pc = "flush_lock"]
    /\ Quiet
    /\ UNCHANGED <<immu_mem_list_, serialization_mtx_, heap, allocated, serLog, hist>>

\* --------------------------------------------------- Flush, both (95-100, 106-113)
\* MemTable::Serialize(wal_lsn) on a queue entry: what is handed to storage,
\* and whether the status it returns is ok
Serialize(e, wal_lsn, ok) ==
    [mem |-> e.mem, dangling |-> e.dangling, wal_lsn |-> wal_lsn, ok |-> ok,
     table_id |-> EntryTableId(e), adds |-> EntryAdds(e), dels |-> EntryDels(e)]

\* a sweep that stops at the first Serialize that fails
AfterSerializeAbort(i, ok) == IF ok THEN i + 1 ELSE MaxLongCalls + 1

\* lines 96-98 / 108-111: the status of Serialize is dropped, the loop goes on
\* to the next entry of the queue
AfterSerialize(i, ok) == i + 1

\* lines 95-98 / 106-111: lock serialization_mtx_ when entering (and clear
\* table_ids); one pass of the loop over the queue, or its end
FlushSweep(self) ==
    /\ \/ th[self].pc = "flush_lock" /\ CanLock(serialization_mtx_)
       \/ th[self].pc = "flush_sweep" /\ serialization_mtx_ = self
    /\ serialization_mtx_' = self
    /\ LET f == IF th[self].pc = "flush_lock"
                THEN [th[self] EXCEPT !.i = 1, !.table_ids = {}, !.pc = "flush_sweep"]
                ELSE th[self] IN
         IF f.i > Len(immu_mem_list_)
         THEN /\ th' = [th EXCEPT ![self] = [f EXCEPT !.pc = "flush_clear"]]
              /\ UNCHANGED <<serLog, hist>>
         ELSE \E ok \in MemTableOutcomes :
                LET e == immu_mem_list_[f.i] IN
                  /\ serLog' = Noted(Append(serLog, Serialize(e, f.wal_lsn, ok)), serLog)
                  /\ hist' = IF ok THEN hist ELSE [hist EXCEPT !.clean = FALSE]
                  /\ th' = [th EXCEPT ![self] =
                               [f EXCEPT !.i = AfterSerialize(f.i, ok),
                                         !.table_ids = IF f.op = "FlushAll"
                                                       THEN @ \cup {EntryTableId(e)} ELSE @]]
    /\ Quiet
    /\ UNCHANGED <<mem_id_map_, immu_mem_list_, mutex_, heap, allocated>>

\* a clear that is left out
ListClearKeep(l) == l

\* line 99 / 112
ListClear(l) == <<>>

\* lines 99-100 / 112-113
FlushClear(self) ==
    /\ th[self].pc = "flush_clear"
    /\ immu_mem_list_' = ListClear(immu_mem_list_)
    /\ serialization_mtx_' = Unlock(self)
    /\ th' = Return(self, [th[self] EXCEPT !.status = "OK"])
    /\ Quiet
    /\ UNCHANGED <<mem_id_map_, mutex_, heap, allocated, serLog, hist>>

\* --------------------------------------------------- EraseMemVector (148-167)
CallEraseMemVector(self) ==
    \E t \in Tables :
        Begin(self, "EraseMemVector", "erase_map", [Frame0 EXCEPT !.table_id = t])

\* lines 150-153: lock mutex_, erase, unlock
EraseFromMap(self) ==
    /\ th[self].pc = "erase_map"
    /\ CanLock(mutex_)
    /\ mem_id_map_' = MapErase(mem_id_map_, th[self].table_id)
    /\ mutex_' = Unlock(self)
    /\ th' = [th EXCEPT ![self].pc = "erase_filter"]
    /\ Quiet
    /\ UNCHANGED <<immu_mem_list_, serialization_mtx_, heap, allocated, serLog, hist>>

\* lines 157-162
RECURSIVE ListFilter(_, _)
ListFilter(l, t) ==
    IF l = <<>> THEN <<>>
    ELSE IF EntryTableId(Head(l)) # t THEN <<Head(l)>> \o ListFilter(Tail(l), t)
                                       ELSE ListFilter(Tail(l), t)

\* lines 156-162: lock serialization_mtx_, build temp_list
EraseFilter(self) ==
    /\ th[self].pc = "erase_filter"
    /\ CanLock(serialization_mtx_)
    /\ serialization_mtx_' = self
    /\ th' = [th EXCEPT ![self] =
                 [@ EXCEPT !.temp_list = ListFilter(immu_mem_list_, th[self].table_id),
                           !.pc = "erase_swap"]]
    /\ Quiet
    /\ UNCHANGED <<mem_id_map_, immu_mem_list_, mutex_, heap, allocated, serLog, hist>>

\* lines 163-166
EraseSwap(self) ==
    /\ th[self].pc = "erase_swap"
    /\ immu_mem_list_' = th[self].temp_list
    /\ serialization_mtx_' = Unlock(self)
    /\ th' = Return(self, [th[self] EXCEPT !.status = "OK"])
    /\ Quiet
    /\ UNCHANGED <<mem_id_map_, mutex_, heap, allocated, serLog, hist>>

\* ------------------------------------------------------------ specification
Next ==
    \E self \in Threads :
        \/ CallInsertVectors(self)
        \/ CallDeleteVector(self)
        \/ CallDeleteVectors(self)
        \/ CallFlush(self)
        \/ CallFlushAll(self)
        \/ CallEraseMemVector(self)
        \/ CallGetCurrentMem(self)
        \/ GetCurrentMutableMem(self)
        \/ GetCurrentImmutableMem(self)
        \/ InsertVectorsLock(self)
        \/ GetMemByTableFind(self)
        \/ GetMemByTableMake(self)
        \/ InsertVectorsNoLock(self)
        \/ DeleteVector(self)
        \/ DeleteVectors(self)
        \/ ToImmutableFind(self)
        \/ ToImmutablePush(self)
        \/ ToImmutableAllLoop(self)
        \/ ToImmutableAllSwap(self)
        \/ FlushSweep(self)
        \/ FlushClear(self)
        \/ EraseFromMap(self)
        \/ EraseFilter(self)
        \/ EraseSwap(self)

Spec == Init /\ [][Next]_vars

\* longer call histories over fewer operations
LongNext ==
    \E self \in Threads :
        \/ CallInsertVectors(self)
        \/ CallDeleteVector(self)
        \/ CallFlush(self)
        \/ CallFlushAll(self)
        \/ CallEraseMemVector(self)
        \/ GetCurrentMutableMem(self)
        \/ GetCurrentImmutableMem(self)
        \/ InsertVectorsLock(self)
        \/ GetMemByTableFind(self)
        \/ GetMemByTableMake(self)
        \/ InsertVectorsNoLock(self)
        \/ DeleteVector(self)
        \/ ToImmutableFind(self)
        \/ ToImmutablePush(self)
        \/ ToImmutableAllLoop(self)
        \/ ToImmutableAllSwap(self)
        \/ FlushSweep(self)
        \/ FlushClear(self)
        \/ EraseFromMap(self)
        \/ EraseFilter(self)
        \/ EraseSwap(self)

LongSpec == LongInit /\ [][LongNext]_vars

\* InsertVectors callers and a flusher of all tables
GateNext ==
    \E self \in Threads :
        \/ CallInsertVectors(self)
        \/ CallFlushAll(self)
        \/ GetCurrentMutableMem(self)
        \/ GetCurrentImmutableMem(self)
        \/ InsertVectorsLock(self)
        \/ GetMemByTableMake(self)
        \/ InsertVectorsNoLock(self)
        \/ ToImmutableAllLoop(self)
        \/ ToImmutableAllSwap(self)
        \/ FlushSweep(self)
        \/ FlushClear(self)

GateSpec == GateInit /\ [][GateNext]_vars

\* a thread's step inside the call it runs
Step(self) ==
    \/ GetCurrentMutableMem(self)
    \/ GetCurrentImmutableMem(self)
    \/ InsertVectorsLock(self)
    \/ GetMemByTableMake(self)
    \/ InsertVectorsNoLock(self)
    \/ ToImmutableAllLoop(self)
    \/ ToImmutableAllSwap(self)
    \/ FlushSweep(self)
    \/ FlushClear(self)

\* callers of InsertVectors and of Flush(table_ids) that never stop
LiveNext ==
    \E self \in Threads :
        \/ CallInsertVectors(self)
        \/ CallFlushAll(self)
        \/ Step(self)

\* every thread goes on with the call it runs whenever it can again and again:
\* the scheduler is fair and a mutex is handed to each waiter in turn
LiveSpec == LiveInit /\ [][LiveNext]_vars /\ \A self \in Threads : SF_vars(Step(self))

\* DeleteVectors callers and a flusher of single tables
DeleteNext ==
    \E self \in Threads :
        \/ CallDeleteVectors(self)
        \/ CallFlush(self)
        \/ GetMemByTableFind(self)
        \/ GetMemByTableMake(self)
        \/ DeleteVectors(self)
        \/ ToImmutableFind(self)
        \/ ToImmutablePush(self)
        \/ FlushSweep(self)
        \/ FlushClear(self)

DeleteSpec == DeleteInit /\ [][DeleteNext]_vars

\* ==================================================================== claims
Stepped(s) == th'[s] # th[s]

Returned(s, op) == th[s].pc = "idle" /\ th[s].op = op

SerializedMems == {serLog[k].mem : k \in 1..Len(serLog)}

\* the step in which Flush(table_id, wal_lsn) finds no entry for table_id
FlushAbsentStep(s) ==
    /\ th[s].op = "Flush" /\ th[s].pc = "toimm_lock" /\ Stepped(s)
    /\ mem_id_map_[th[s].table_id] = NoMem

C2_PromotedAreSerialized ==
    \A s \in Threads :
        (hist.clean /\ th[s].pc = "idle" /\ th[s].op \in {"Flush", "FlushAll"}
            /\ th[s].status = "OK")
        => th[s].promoted \subseteq SerializedMems

SerializedAdds(t) ==
    UNION {serLog[k].adds : k \in {j \in 1..Len(serLog) : serLog[j].table_id = t}}

SerializedDels(t) ==
    UNION {serLog[k].dels : k \in {j \in 1..Len(serLog) : serLog[j].table_id = t}}

\* every call has returned and the manager holds no buffer any more
AllFlushed ==
    /\ \A s \in Threads : ~Running(s)
    /\ MapMems = {}
    /\ immu_mem_list_ = <<>>

NoDanglingSerialized == \A k \in 1..Len(serLog) : ~serLog[k].dangling

\* C3: after InsertVectors, DeleteVector(s) and Flush calls that all returned
\* success and have flushed every table, the ids handed to Serialize for a
\* table are the ids inserted into it minus the ids deleted from it.  Stated
\* for the runs in which every queue entry still read as the buffer it was.
C3_SerializedIsInsertedMinusDeleted ==
    (hist.clean /\ AllFlushed /\ NoDanglingSerialized)
    => \A t \in Tables :
          SerializedAdds(t) \ SerializedDels(t) = hist.ins[t] \ hist.del[t]

\* C4: no MemTable is referenced by the directory and by the queue at once.
\* Stated for the states in which a thread holds serialization_mtx_, the lock
\* under which the queue is read.
C4_DirectoryXorQueue ==
    serialization_mtx_ # NoThread => MapMems \cap ListMems = {}

MutexWaitPcs == {"GetCurrentMutableMem", "ins_lock", "toimm_lock", "toimmall_lock",
                 "erase_map"}
SerializationWaitPcs == {"GetCurrentImmutableMem", "flush_lock", "erase_filter"}

\* the thread is at a lock acquisition and the lock is held
Blocked(s) ==
    \/ th[s].pc \in MutexWaitPcs /\ mutex_ # NoThread
    \/ th[s].pc \in SerializationWaitPcs /\ serialization_mtx_ # NoThread

\* C5: no deadlock: whenever some call is unfinished, some unfinished call is
\* not waiting for mutex_ or serialization_mtx_.
C5_NoDeadlock ==
    (\E s \in Threads : Running(s)) => \E s \in Threads : Running(s) /\ ~Blocked(s)

\* a Flush that has promoted waits for serialization_mtx_, held by another call
C5_Witness ==
    \E s \in Threads :
        /\ th[s].pc = "flush_lock" /\ th[s].promoted # {}
        /\ serialization_mtx_ \notin {NoThread, s}

\* C6: no thread holds mutex_ and serialization_mtx_ at the same time.
C6_NeverBothLocks ==
    \A s \in Threads : ~(mutex_ = s /\ serialization_mtx_ = s)

\* a Flush that has promoted holds serialization_mtx_ while another call holds
\* mutex_
C6_Witness ==
    \E s \in Threads :
        /\ serialization_mtx_ = s /\ th[s].op \in {"Flush", "FlushAll"}
        /\ th[s].promoted # {}
        /\ mutex_ \notin {NoThread, s}

\* the thread's next statement reads or writes immu_mem_list_
AtQueueAccess(s) ==
    \/ th[s].pc \in {"toimm_push", "flush_sweep", "flush_clear", "erase_swap"}
    \/ /\ th[s].pc = "toimmall_loop"
       /\ \E t \in Tables \ th[s].visited :
             mem_id_map_[t] # NoMem /\ ~Empty(mem_id_map_[t])

\* C7: every read and every modification of the queue is made by a thread that
\* holds serialization_mtx_.
C7_QueueUnderSerializationMtx ==
    \A s \in Threads : AtQueueAccess(s) => serialization_mtx_ = s

\* C8: every GetMemByTable and every call into MemTable::Add or
\* MemTable::Delete is made by a thread that holds mutex_.
C8_DirectoryUnderMutex ==
    \A s \in Threads :
        th[s].pc \in {"getmem_find", "getmem_make", "ins_add", "del_apply", "dels_loop"}
        => mutex_ = s

\* C9: after Flush(table_id, L) has returned success, none of the buffers that
\* were in the queue when the call was entered is in the queue.
C9_EntryBuffersGone ==
    \A s \in Threads :
        (Returned(s, "Flush") /\ th[s].status = "OK")
        => th[s].entry_list \cap ListMems = {}

\* a Flush by name that was entered with a buffer in the queue has returned
\* success
C9_Witness ==
    \E s \in Threads :
        Returned(s, "Flush") /\ th[s].status = "OK" /\ th[s].entry_list # {}

\* no buffer of table t in the directory or in the queue of the next state
NoBufferAfter(t) ==
    /\ mem_id_map_'[t] = NoMem
    /\ \A k \in 1..Len(immu_mem_list_') : heap'[immu_mem_list_'[k].mem].table_id # t

EraseReturns(s) == th[s].pc = "erase_swap" /\ th'[s].pc = "idle"

\* no DeleteVector or DeleteVectors, the calls that take no lock, is or was run
NoDeleteCall == \A u \in Threads : th[u].op \notin {"DeleteVector", "DeleteVectors"}

\* C10 as stated: when EraseMemVector(t) returns, neither the directory nor
\* the queue holds a buffer of table t, whatever other threads run meanwhile.
\* Stated for the other threads running InsertVectors and Flush only.
C10_EraseLeavesNoBuffer ==
    [][\A s \in Threads :
          (EraseReturns(s) /\ NoDeleteCall) => NoBufferAfter(th[s].table_id)]_vars

\* C10 amended: when EraseMemVector(t) returns, neither the directory nor the
\* queue holds a buffer of table t, provided no InsertVectors, DeleteVector(s)
\* or Flush call ran at the same time as the erase.
C10_EraseLeavesNoBufferUnlessOverlapped ==
    [][\A s \in Threads :
          (EraseReturns(s) /\ ~overlap[s]) => NoBufferAfter(th[s].table_id)]_vars

\* an EraseMemVector(t) that no such call overlapped has returned, and the
\* directory held a buffer of t when it was entered
C10_Witness ==
    \E s \in Threads :
        /\ Returned(s, "EraseMemVector") /\ ~overlap[s]
        /\ \E m \in th[s].entry_map : GetTableId(m) = th[s].table_id

\* the Serialize invocations of the Flush call that carries wal_lsn (every
\* Flush call of a history carries its own wal_lsn)
SerializedBy(wal_lsn) == {k \in 1..Len(serLog) : serLog[k].wal_lsn = wal_lsn}

\* ToImmutable() ends (line 144): what was in the directory is kept when its
\* Empty() is true and has been promoted by this call when it is false
FlushAllPartitions(s) ==
    (th[s].pc = "toimmall_swap" /\ Stepped(s))
    => \A m \in MapMems : IF Empty(m) THEN m \in MapMems' ELSE m \in th[s].promoted

\* a Flush of all tables invokes Serialize on a buffer that is not empty
FlushAllSerializesNonEmpty(s) ==
    (th[s].op = "FlushAll" /\ serLog' # serLog /\ Stepped(s))
    => LET r == serLog'[Len(serLog')] IN r.adds \cup r.dels # {}

\* a Flush of all tables returns: table_ids holds the tables it serialized
FlushAllReportsTables(s) ==
    (th[s].op = "FlushAll" /\ th[s].pc = "flush_clear" /\ Stepped(s))
    => th'[s].table_ids = {serLog[k].table_id : k \in SerializedBy(th[s].wal_lsn)}

\* C11: a Flush of all tables promotes exactly the buffers of the directory
\* whose Empty() is false and keeps those whose Empty() is true, invokes
\* Serialize on non-empty buffers only, and returns in table_ids exactly the
\* tables of the buffers it serialized.
C11_FlushAllPartitionsAndReports ==
    [][\A s \in Threads :
          /\ FlushAllPartitions(s)
          /\ FlushAllSerializesNonEmpty(s)
          /\ FlushAllReportsTables(s)]_vars

\* the Delete invocations of a DeleteVectors call follow the batch in its
\* order, and only the last of them may have failed
AttemptsFollowBatch(f) ==
    /\ Len(f.attempts) <= Len(f.vector_ids)
    /\ \A k \in 1..Len(f.attempts) :
          /\ f.attempts[k].id = f.vector_ids[k]
          /\ k < Len(f.attempts) => f.attempts[k].ok

\* what a returned DeleteVectors call reports
DeleteVectorsResult(f) ==
    IF f.status = "OK"
    THEN Len(f.attempts) = Len(f.vector_ids) /\ \A k \in 1..Len(f.attempts) : f.attempts[k].ok
    ELSE /\ f.status = "DELETE_ERROR"
         /\ f.attempts # <<>> /\ ~f.attempts[Len(f.attempts)].ok

\* C12: DeleteVectors invokes Delete on the ids in the order of the batch; at
\* the first Delete that fails it returns that status and invokes Delete on no
\* later id; the deletions made before stay in the buffer; it returns OK when
\* no Delete failed.
C12_DeleteVectorsStopsAtFirstFailure ==
    /\ [](\A s \in Threads :
            th[s].op = "DeleteVectors" =>
                /\ AttemptsFollowBatch(th[s])
                /\ th[s].pc = "dels_loop" =>
                      \A k \in 1..Len(th[s].attempts) :
                          /\ th[s].attempts[k].ok
                          /\ th[s].attempts[k].id \in heap[th[s].mem].dels
                /\ th[s].pc = "idle" => DeleteVectorsResult(th[s]))
    /\ [][\A m \in 1..allocated : heap[m].dels \subseteq heap'[m].dels]_vars

\* DeleteVectors(t, <<a, b, c>>) has returned the error of b: a was deleted,
\* Delete was not invoked on c
C12_Witness ==
    \E s \in Threads :
        /\ Returned(s, "DeleteVectors") /\ th[s].status = "DELETE_ERROR"
        /\ Len(th[s].vector_ids) = 3 /\ Len(th[s].attempts) = 2
        /\ \E m \in 1..allocated :
              /\ heap[m].table_id = th[s].table_id
              /\ heap[m].dels = {th[s].vector_ids[1]}

\* C13: InsertVectors returns the status of MemTable::Add; when Add succeeded
\* and the batch came without ids, the batch leaves with the ids of the
\* VectorSource, one per vector, which are the ids recorded in the buffer;
\* when the caller gave ids or Add failed, the id array is left as it came.
C13_InsertReturnsAddStatusAndIds ==
    [][\A s \in Threads :
          (th[s].pc = "ins_add" /\ th'[s].pc = "idle") =>
              LET f == th[s]
                  g == th'[s]
                  source_ids == GetVectorIds(f.vectors, f.callNo) IN
                /\ IF g.status = "OK"
                   THEN SeqToSet(source_ids) \subseteq heap'[f.mem].adds
                   ELSE g.status = "ADD_ERROR" /\ heap' = heap
                /\ IF g.status = "OK" /\ f.vectors.id_array_ = <<>>
                   THEN /\ g.vectors.id_array_ = source_ids
                        /\ Len(g.vectors.id_array_) = f.vectors.vector_count_
                        /\ SeqToSet(g.vectors.id_array_) \subseteq heap'[f.mem].adds
                   ELSE g.vectors.id_array_ = f.vectors.id_array_]_vars

\* an InsertVectors that came without ids has returned OK with generated ids,
\* and another one that came without ids has failed and left without ids
C13_Witness ==
    \E s, u \in Threads :
        /\ Returned(s, "InsertVectors") /\ th[s].status = "OK"
        /\ th[s].vectors.id_array_ # <<>>
        /\ SeqToSet(th[s].vectors.id_array_) \subseteq GeneratedIds
        /\ Returned(u, "InsertVectors") /\ th[u].status = "ADD_ERROR"
        /\ th[u].vectors.id_array_ = <<>>

\* GetCurrentMutableMem(): the memory of the buffers in the directory
MutableMem == SumSet(MapMems)

\* C14 as stated: with concurrent InsertVectors callers, each adding a batch
\* of one vector, the memory of the directory never exceeds the ceiling by
\* more than the payload of one batch.
C14_OvershootOneBatch == MutableMem <= insert_buffer_size_ + 1

\* C14 amended: with concurrent InsertVectors callers, each adding a batch of
\* one vector, the memory of the directory never exceeds the ceiling by more
\* than one batch for every caller thread.
C14_OvershootOneBatchPerCaller == MutableMem <= insert_buffer_size_ + NumThreads

\* the directory is one batch per caller above the ceiling, and an
\* InsertVectors that sampled it stalls in the gate
C14_Witness ==
    /\ MutableMem = insert_buffer_size_ + NumThreads
    /\ \E s \in Threads :
          /\ th[s].op = "InsertVectors" /\ th[s].pc = "GetCurrentMutableMem"
          /\ th[s].total_mem > insert_buffer_size_

\* an InsertVectors call completes a sample of GetCurrentMem() (line 42)
GateSample(s) ==
    th[s].op = "InsertVectors" /\ th[s].pc = "GetCurrentImmutableMem" /\ Stepped(s)

\* the call goes back to sampling instead of going on to line 47
Stalls(s) == th'[s].pc = "GetCurrentMutableMem"

\* C16 as stated: an InsertVectors call that samples a total memory greater
\* than or equal to the ceiling stalls in the gate.
C16_StallsAtOrAboveCeiling ==
    [][\A s \in Threads :
          (GateSample(s) /\ th'[s].total_mem >= insert_buffer_size_) => Stalls(s)]_vars

\* C16 amended: an InsertVectors call that samples a total memory greater
\* than the ceiling stalls in the gate; one that samples a total equal to or
\* below the ceiling goes on to the locked body.
C16_StallsAboveCeiling ==
    [][\A s \in Threads :
          GateSample(s) =>
              IF th'[s].total_mem > insert_buffer_size_
              THEN Stalls(s) ELSE th'[s].pc = "ins_lock"]_vars

\* an InsertVectors call that sampled exactly the ceiling is past the gate
\* while another one, which sampled more, is stalled
C16_Witness ==
    \E s, u \in Threads :
        /\ th[s].op = "InsertVectors" /\ th[s].pc = "ins_lock"
        /\ th[s].total_mem = insert_buffer_size_
        /\ th[u].op = "InsertVectors" /\ th[u].pc = "GetCurrentMutableMem"
        /\ th[u].total_mem > insert_buffer_size_

\* the sweep of a Flush ends: the loop of lines 96-98 / 108-111 is left
SweepEnds(s) ==
    th[s].pc \in {"flush_lock", "flush_sweep"} /\ th'[s].pc = "flush_clear"

\* C17: a Serialize that fails does not end the sweep of a Flush (by name or
\* of all tables): when the sweep ends Serialize has been invoked by the call
\* on every buffer of the queue, and the queue is empty after the clear that
\* follows it.
C17_SweepGoesOnAfterFailure ==
    [][\A s \in Threads :
          /\ (Stepped(s) /\ serLog' # serLog /\ ~serLog'[Len(serLog')].ok)
                => th'[s].pc = "flush_sweep" /\ serialization_mtx_' = s
          /\ SweepEnds(s)
                => \A k \in 1..Len(immu_mem_list_) :
                      \E j \in SerializedBy(th[s].wal_lsn) :
                          serLog[j].mem = immu_mem_list_[k].mem
          /\ (th[s].pc = "flush_clear" /\ Stepped(s)) => immu_mem_list_' = <<>>]_vars

\* a Flush has returned whose Serialize failed on one buffer and was invoked
\* on a later buffer of the queue all the same
C17_Witness ==
    \E s \in Threads :
        /\ th[s].pc = "idle" /\ th[s].op \in {"Flush", "FlushAll"}
        /\ th[s].status = "OK" /\ immu_mem_list_ = <<>>
        /\ \E j, k \in SerializedBy(th[s].wal_lsn) :
              j < k /\ ~serLog[j].ok /\ serLog[k].mem # serLog[j].mem

\* a buffer that was pushed onto the queue and is out of the directory does
\* not come back into the directory
NoReturnToDirectory ==
    \A m \in hist.queued : m \notin MapMems => m \notin MapMems'

\* a buffer that was pushed onto the queue and has left it does not come back
\* into the queue
NoReturnToQueue ==
    \A m \in hist.queued : m \notin ListMems => m \notin ListMems'

\* GetMemByTable, called by InsertVectors or DeleteVector(s), does not resolve
\* to a buffer that was in the queue when the call was entered
ResolvesToMutable(s) ==
    (/\ th[s].op \in {"InsertVectors", "DeleteVector", "DeleteVectors"}
     /\ th'[s].mem \notin {NoMem, th[s].mem})
    => th'[s].mem \notin th[s].entry_list

\* C18: a buffer only moves from the directory to the queue and from the
\* queue to nowhere: once it has entered the queue it does not re-enter the
\* directory, once dropped from the queue it does not reappear, and an
\* InsertVectors or DeleteVector(s) after that gets a new buffer, not the
\* old one.
C18_BuffersMoveForward ==
    [][/\ NoReturnToDirectory
       /\ NoReturnToQueue
       /\ \A s \in Threads : ResolvesToMutable(s)]_vars

\* the positions of the queue
QueueIndex == 1..Len(immu_mem_list_)

\* no DeleteVector(s) call has written a tombstone or is running
NoDeleteSoFar ==
    /\ \A t \in Tables : hist.del[t] = {}
    /\ NoDeleteCall

\* C19 as stated: in every reachable state the queue holds at most one buffer
\* for a table_id, also when threads call InsertVectors and Flush on the same
\* table concurrently.  Stated for the histories without DeleteVector(s).
C19_OneQueuedBufferPerTable ==
    NoDeleteSoFar =>
        \A j, k \in QueueIndex :
            GetTableId(immu_mem_list_[j].mem) = GetTableId(immu_mem_list_[k].mem) => j = k

\* C19 amended: in every reachable state the queue holds a buffer instance
\* at most once; two different buffers of one table_id can be queued together.
C19_OneQueueEntryPerBuffer ==
    \A j, k \in QueueIndex : immu_mem_list_[j].mem = immu_mem_list_[k].mem => j = k

\* the queue holds two different buffers of the same table
C19_Witness ==
    \E j, k \in QueueIndex :
        /\ immu_mem_list_[j].mem # immu_mem_list_[k].mem
        /\ GetTableId(immu_mem_list_[j].mem) = GetTableId(immu_mem_list_[k].mem)

\* Serialize is not invoked twice on a buffer
SerializedAtMostOnce ==
    \A j, k \in 1..Len(serLog) : serLog[j].mem = serLog[k].mem => j = k

\* a buffer that was pushed onto the queue and is no longer in it was handed
\* to Serialize; for the histories without EraseMemVector
SerializedBeforeDropped ==
    hist.clean => \A m \in hist.queued \ ListMems : m \in SerializedMems

\* C20: over the lifetime of a buffer Serialize is invoked on it exactly
\* once: not twice, also with concurrent Flush calls, and not zero times when
\* the buffer was promoted to the queue and no EraseMemVector removed it.
C20_SerializedExactlyOnce == SerializedAtMostOnce /\ SerializedBeforeDropped

GatePcs == {"GetCurrentMutableMem", "GetCurrentImmutableMem"}

\* the thread runs an InsertVectors that is in the loop of lines 42-45
InGate(s) == th[s].op = "InsertVectors" /\ th[s].pc \in GatePcs

\* a Flush(table_ids) returns, having promoted, swept and cleared
FlushAllReturns ==
    \E s \in Threads :
        th[s].op = "FlushAll" /\ th[s].pc = "flush_clear" /\ th'[s].pc = "idle"

\* a caller enters InsertVectors
InsertBegins ==
    \E s \in Threads :
        th[s].pc = "idle" /\ th'[s].pc # "idle" /\ th'[s].op = "InsertVectors"

\* the gate has no exit but the locked body: a call in the gate samples again
\* or goes on to line 47, it does not return
GateNeverFails ==
    [][\A s \in Threads : InGate(s) => th'[s].pc \in GatePcs \cup {"ins_lock"}]_vars

\* C15 as stated: under fair scheduling, if Flush calls keep promoting and
\* serializing the buffers, every InsertVectors call that is in the gate
\* eventually leaves it and returns; the gate never returns an error.
C15_StalledInsertCompletes ==
    /\ GateNeverFails
    /\ ([]<><<FlushAllReturns>>_vars)
          => \A s \in Threads : InGate(s) ~> (th[s].pc = "idle")

\* C15 amended: under fair scheduling, if Flush calls keep promoting and
\* serializing the buffers and from some time on no further InsertVectors
\* call is started, every InsertVectors call that is in the gate eventually
\* leaves it and returns; the gate never returns an error.
C15_StalledInsertCompletesOnceInsertsStop ==
    /\ GateNeverFails
    /\ ((<>[][~InsertBegins]_vars) /\ ([]<><<FlushAllReturns>>_vars))
          => \A s \in Threads : InGate(s) ~> (th[s].pc = "idle")

\* an InsertVectors has sampled more than the ceiling and is stalled while a
\* Flush(table_ids) is about to clear the queue it has swept
C15_Witness ==
    \E s, u \in Threads :
        /\ InGate(s) /\ th[s].total_mem > insert_buffer_size_
        /\ th[u].op = "FlushAll" /\ th[u].pc = "flush_clear"
        /\ immu_mem_list_ # <<>>

\* the buffers handed to Serialize by the Flush call that carries wal_lsn, in
\* the order of the invocations
SweptBy(wal_lsn) ==
    LET recs == SelectSeq(serLog, LAMBDA r : r.wal_lsn = wal_lsn) IN
      [k \in 1..Len(recs) |-> recs[k].mem]

QueueMems == [k \in 1..Len(immu_mem_list_) |-> immu_mem_list_[k].mem]

\* Flush(table_id, wal_lsn) is in its sweep or at its clear: what it has handed
\* to Serialize so far is the front of the queue, in queue order
SweepInQueueOrder(s) ==
    (th[s].op = "Flush" /\ th[s].pc \in {"flush_sweep", "flush_clear"})
    => LET swept == SweptBy(th[s].wal_lsn) IN
         /\ Len(swept) <= Len(immu_mem_list_)
         /\ swept = SubSeq(QueueMems, 1, Len(swept))

\* the clear of Flush(table_id, wal_lsn), line 99
FlushClearStep(s) == th[s].op = "Flush" /\ th[s].pc = "flush_clear" /\ Stepped(s)

\* C21: Flush(table_id, wal_lsn) on a present table invokes Serialize, with its
\* own wal_lsn and in queue order, on every buffer that is in the queue while
\* the call holds serialization_mtx_, the buffers other calls promoted
\* included, and then leaves the queue empty: what its clear drops is what it
\* has serialized.
C21_FlushSerializesWholeQueue ==
    [][\A s \in Threads :
          /\ SweepInQueueOrder(s)
          /\ FlushClearStep(s) =>
                /\ SweptBy(th[s].wal_lsn) = QueueMems
                /\ immu_mem_list_' = <<>>]_vars

\* a Flush is between locking serialization_mtx_ (line 95 / 106) and the end
\* of its clear (line 99 / 112)
InSweep(u) == th[u].pc \in {"flush_sweep", "flush_clear"}

\* EraseMemVector is between building temp_list and swapping it in (157-163)
InFilter(s) == th[s].op = "EraseMemVector" /\ th[s].pc = "erase_swap"

\* EraseMemVector enters its second block (line 156)
FilterBegins(s) ==
    th[s].op = "EraseMemVector" /\ th[s].pc = "erase_filter" /\ Stepped(s)

\* C22: the filtering of the queue by EraseMemVector does not interleave with
\* the sweep of a Flush: while a Flush is between taking serialization_mtx_
\* and the end of its clear, no EraseMemVector enters or is inside its second
\* block; an EraseMemVector that arrives then waits.
C22_EraseWaitsForSweep ==
    [][\A s \in Threads :
          /\ InFilter(s) => \A u \in Threads : ~InSweep(u)
          /\ FilterBegins(s) => \A u \in Threads : ~InSweep(u)
          /\ (th[s].pc = "erase_filter" /\ \E u \in Threads : InSweep(u))
                => /\ Blocked(s)
                   /\ th'[s] = th[s]]_vars

\* an EraseMemVector has arrived at its second block while a Flush, which has
\* serialized a buffer of the erased table, is still iterating the queue
C22_Witness ==
    \E s, u \in Threads :
        /\ th[s].op = "EraseMemVector" /\ th[s].pc = "erase_filter"
        /\ th[u].pc = "flush_sweep" /\ th[u].i > 1 /\ serialization_mtx_ = u
        /\ \E k \in 1..Len(immu_mem_list_) :
              EntryTableId(immu_mem_list_[k]) = th[s].table_id

\* the InsertVectors call of the thread is past the gate (lines 47-63)
PastGate(s) ==
    th[s].op = "InsertVectors" /\ th[s].pc \in {"ins_lock", "getmem_make", "ins_add"}

\* some buffer gets ids added in this step
SomeAdd == \E m \in Mems : heap'[m].adds # heap[m].adds

\* C23: an InsertVectors call adds nothing to a buffer before one of its
\* samples of GetCurrentMem() was at most insert_buffer_size_; while it is in
\* the gate it holds neither mutex between samples, its steps leave the
\* directory, the queue and the buffers as they are, and it promotes and
\* serializes nothing.
C23_GateOnlyStalls ==
    [][\A s \in Threads :
          /\ InGate(s) => mutex_ # s /\ serialization_mtx_ # s
          /\ (InGate(s) /\ Stepped(s))
                => /\ UNCHANGED <<mem_id_map_, immu_mem_list_, heap, serLog,
                                  mutex_, serialization_mtx_>>
                   /\ th'[s].promoted = {}
          /\ PastGate(s) => th[s].total_mem <= insert_buffer_size_
          /\ (th[s].op = "InsertVectors" /\ Stepped(s) /\ SomeAdd)
                => th[s].pc = "ins_add" /\ th[s].total_mem <= insert_buffer_size_]_vars

\* an InsertVectors call has sampled more than the ceiling and gone back to
\* sampling; the buffers it counted are still where they were and no Flush is
\* running
C23_Witness ==
    \E s \in Threads :
        /\ th[s].op = "InsertVectors" /\ th[s].pc = "GetCurrentMutableMem"
        /\ th[s].total_mem > insert_buffer_size_
        /\ MutableMem + SumList(immu_mem_list_) = th[s].total_mem
        /\ \A u \in Threads : th[u].op # "FlushAll" \/ th[u].pc = "idle"

DeleteOps == {"DeleteVector", "DeleteVectors"}

\* every call so far was made after the one before it had returned: a call
\* runs on the first idle thread, so no other thread has run one
Sequential == \A u \in Threads : u > 1 => th[u].op = "none"

\* the directory holds a buffer of table t
HasBuffer(map, t) == map[t] # NoMem

\* GetMemByTable, called by DeleteVector(s) for a table without an entry,
\* installs a new, empty MemTable of that table and returns it (lines 36-37)
DeleteCreates(s) ==
    (th[s].op \in DeleteOps /\ th[s].pc = "getmem_make" /\ Stepped(s))
    => /\ th'[s].mem # NoMem
       /\ mem_id_map_'[th[s].table_id] = th'[s].mem
       /\ heap'[th'[s].mem] = NewMemTable(th[s].table_id)

\* a DeleteVector(s) call returns, whatever its status and its id list
DeleteReturns(s) ==
    th[s].op \in DeleteOps /\ th[s].pc # "idle" /\ th'[s].pc = "idle"

\* Flush(table_id, wal_lsn) is entered by the thread whose last call was a
\* DeleteVector(s) on the same table
FlushFollowsDelete(s) ==
    /\ th[s].pc = "idle" /\ th[s].op \in DeleteOps
    /\ th'[s].op = "Flush" /\ th'[s].pc = "toimm_lock"
    /\ th'[s].table_id = th[s].table_id

\* Flush(table_id, wal_lsn), entered with a buffer of table_id in the
\* directory, returns
FlushOfPresentReturns(s) ==
    /\ th[s].op = "Flush" /\ th[s].pc # "idle" /\ th'[s].pc = "idle"
    /\ \E m \in th[s].entry_map : GetTableId(m) = th[s].table_id

\* C24: DeleteVector and DeleteVectors on a table_id without a mutable buffer
\* create one in the directory, also when the id list is empty or a Delete
\* fails, so that a Flush(table_id, L) that follows the call finds the table
\* and returns OK.  The following Flush is stated for callers that make one
\* call after the other.
C24_DeleteCreatesBuffer ==
    [][\A s \in Threads :
          /\ DeleteCreates(s)
          /\ (Sequential /\ DeleteReturns(s)) => HasBuffer(mem_id_map_', th[s].table_id)
          /\ (Sequential /\ FlushFollowsDelete(s))
                => \E m \in th'[s].entry_map : GetTableId(m) = th[s].table_id
          /\ (Sequential /\ FlushOfPresentReturns(s)) => th'[s].status = "OK"]_vars

\* DeleteVectors(t, <<>>) was the first call and Flush(t, L), the second, has
\* returned OK after it invoked Serialize on the empty buffer the first made
C24_Witness ==
    /\ Sequential /\ calls = 2 /\ allocated = 1 /\ hist.clean
    /\ \A t \in Tables : hist.ins[t] = {} /\ hist.del[t] = {}
    /\ Returned(1, "Flush") /\ th[1].status = "OK"
    /\ Len(serLog) = 1 /\ serLog[1].mem = 1

\* a GetCurrentMem call returns: its second sample is added (line 192)
GetCurrentMemReturns(s) ==
    th[s].op = "GetCurrentMem" /\ th[s].pc = "GetCurrentImmutableMem" /\ Stepped(s)

\* the buffers the manager held when the call was entered and holds when it
\* returns; a buffer that left the directory and the queue does not come back
HeldThroughout(s) ==
    (th[s].entry_map \cup th[s].entry_list) \cap (MapMems \cup ListMems)

\* no queue entry was pushed from an erased map node that no longer reads as
\* the buffer
NoDanglingEntry == \A k \in 1..Len(immu_mem_list_) : ~immu_mem_list_[k].dangling

\* the total of GetCurrentMem() includes every buffer held throughout the call
CountsEveryHeldBuffer(s) ==
    GetCurrentMemReturns(s) => HeldThroughout(s) \subseteq th'[s].counted

EraseStep(s) == th[s].op = "EraseMemVector" /\ th[s].pc # "idle" /\ Stepped(s)

\* the step of EraseMemVector(t) leaves the directory entries of the other
\* tables as they are
EraseKeepsOtherTables(s) ==
    EraseStep(s) =>
        \A t \in Tables \ {th[s].table_id} : mem_id_map_'[t] = mem_id_map_[t]

\* the step of EraseMemVector(t) leaves the queue entries of the other tables
\* in the queue, in their order
EraseKeepsOtherEntries(s) ==
    EraseStep(s) =>
        ListFilter(immu_mem_list_', th[s].table_id)
            = ListFilter(immu_mem_list_, th[s].table_id)

\* EraseMemVector invokes no Serialize and returns OK
EraseQuietAndOk(s) ==
    EraseStep(s) =>
        /\ serLog' = serLog
        /\ th'[s].pc = "idle" => th'[s].status = "OK"

\* C26: EraseMemVector(t) changes nothing that belongs to another table: the
\* mutable buffers of the other tables stay in the directory, the immutable
\* buffers of the other tables stay in the queue in their relative order, no
\* Serialize is invoked, and the call returns OK whether or not t was present.
C26_EraseTouchesOnlyItsTable ==
    [][\A s \in Threads :
          /\ EraseKeepsOtherTables(s)
          /\ EraseKeepsOtherEntries(s)
          /\ EraseQuietAndOk(s)]_vars

\* a step of a Flush(table_id, wal_lsn) call
FlushStep(s) == th[s].op = "Flush" /\ th[s].pc # "idle" /\ Stepped(s)

\* the directory entry of table t and the content of its buffer are the same
\* after the step
EntryUntouched(t) ==
    /\ mem_id_map_'[t] = mem_id_map_[t]
    /\ mem_id_map_[t] # NoMem => heap'[mem_id_map_[t]] = heap[mem_id_map_[t]]

\* C27: Flush(table_id, wal_lsn) removes from the directory only the entry of
\* table_id: the entries of the other tables stay, with the content of their
\* buffers unchanged, when the call succeeds and when it fails because
\* table_id is absent; a call that fails changes no entry at all.
C27_FlushRemovesOnlyItsEntry ==
    [][\A s \in Threads :
          FlushStep(s) =>
              /\ \A t \in Tables \ {th[s].table_id} : EntryUntouched(t)
              /\ mem_id_map_'[th[s].table_id] \in {mem_id_map_[th[s].table_id], NoMem}
              /\ (th'[s].pc = "idle" /\ th'[s].status # "OK")
                    => \A t \in Tables : EntryUntouched(t)]_vars

\* Flush(t, L) has returned OK and the non-empty buffer another table had in
\* the directory when the call was entered is still there
C27_Witness ==
    \E s \in Threads :
        /\ Returned(s, "Flush") /\ th[s].status = "OK" /\ th[s].promoted # {}
        /\ \E m \in th[s].entry_map \cap MapMems :
              GetTableId(m) # th[s].table_id /\ ~Empty(m)
====
